---- MODULE Spec2Model ----
(***************************************************************************)
(* Model of src/pokemon_tournament_parser_v2.py: the record token parser   *)
(* (parse_record), the percentage token parser (parse_percentage) and the  *)
(* multi-line entry recognizer (parse_multiline_format).                   *)
(*                                                                         *)
(* A Python str is modelled as a sequence of one-character strings, so     *)
(* that strip, replace, the `in` test and the regular expressions are      *)
(* computed character by character.  A list of lines is a sequence of such *)
(* sequences.  The cursor i is 0-based as in the source: lines[i] of the   *)
(* source is lines[i + 1] here.                                            *)
(***************************************************************************)
EXTENDS Integers, Sequences, FiniteSets, TLC

VARIABLES
    lines,        \* parse_multiline_format: the argument
    i,            \* the line cursor
    pc,           \* position in parse_multiline_format
    entries,      \* the output list
    placement, name, country, stats_line, deck,   \* locals of the entry block
    stats_parts,  \* the fields of the stats line
    consumed,     \* history: the indices k for which lines[k] was evaluated
    origin,       \* history: for each entry, the index of its placement line
    steps,        \* history: the number of steps the scan has taken
    record_str,   \* parse_record: the argument
    record_ret,   \* parse_record: the returned tuple
    pct_str,      \* parse_percentage: the argument
    pct_ret,      \* parse_percentage: the returned value
    fpc           \* position of the pure-function call: "idle", "call", "ret"

scanVars == <<lines, i, pc, entries, placement, name, country, stats_line, deck,
              stats_parts, consumed, origin>>
funVars == <<record_str, record_ret, pct_str, pct_ret, fpc>>
vars == <<lines, i, pc, entries, placement, name, country, stats_line, deck,
          stats_parts, consumed, origin, steps, record_str, record_ret, pct_str, pct_ret, fpc>>

----------------------------------------------------------------------------
(* Bounds of the model *)

\* number of segments (single lines or whole entry blocks) after the header
MaxSegs == 3
\* number of pieces a record token is assembled from
MaxRecordParts == 4
\* number of characters of a percentage token
MaxPctLen == 4

----------------------------------------------------------------------------
(* Python str primitives *)

Digits == {"0", "1", "2", "3", "4", "5", "6", "7", "8", "9"}

\* \s of the re module and the characters str.strip() removes
IsSpace(c) == c \in {" ", "\t", "\n"}

\* \d of the re module
IsDigit(c) == c \in Digits

DigitVal(c) ==
    CASE c = "0" -> 0 [] c = "1" -> 1 [] c = "2" -> 2 [] c = "3" -> 3
      [] c = "4" -> 4 [] c = "5" -> 5 [] c = "6" -> 6 [] c = "7" -> 7
      [] c = "8" -> 8 [] c = "9" -> 9

RECURSIVE LStrip(_)
LStrip(s) ==
    IF s = <<>> THEN <<>>
    ELSE IF IsSpace(Head(s)) THEN LStrip(Tail(s)) ELSE s

RECURSIVE RStrip(_)
RStrip(s) ==
    IF s = <<>> THEN <<>>
    ELSE IF IsSpace(s[Len(s)]) THEN RStrip(SubSeq(s, 1, Len(s) - 1)) ELSE s

\* str.strip()
Strip(s) == RStrip(LStrip(s))

\* s.startswith(p)
StartsWith(s, p) == Len(p) <= Len(s) /\ SubSeq(s, 1, Len(p)) = p

\* p in s
Contains(s, p) ==
    \E k \in 0..(Len(s) - Len(p)) : SubSeq(s, k + 1, k + Len(p)) = p

\* s.replace(p, ''): every non-overlapping occurrence of p, left to right
RECURSIVE Remove(_, _)
Remove(s, p) ==
    IF s = <<>> THEN <<>>
    ELSE IF StartsWith(s, p) THEN Remove(SubSeq(s, Len(p) + 1, Len(s)), p)
    ELSE <<Head(s)>> \o Remove(Tail(s), p)

\* int(s) for a run of digits
RECURSIVE ToInt(_)
ToInt(s) ==
    IF s = <<>> THEN 0
    ELSE 10 * ToInt(SubSeq(s, 1, Len(s) - 1)) + DigitVal(s[Len(s)])

\* the length of the longest prefix of s made of characters c with P(c)
RECURSIVE SpanSpace(_)
SpanSpace(s) ==
    IF s = <<>> \/ ~IsSpace(Head(s)) THEN 0 ELSE 1 + SpanSpace(Tail(s))

RECURSIVE SpanTab(_)
SpanTab(s) ==
    IF s = <<>> \/ Head(s) # "\t" THEN 0 ELSE 1 + SpanTab(Tail(s))

RECURSIVE SpanDigit(_)
SpanDigit(s) ==
    IF s = <<>> \/ ~IsDigit(Head(s)) THEN 0 ELSE 1 + SpanDigit(Tail(s))

Drop(s, n) == SubSeq(s, n + 1, Len(s))

\* re.findall(r'\d+', s): the maximal digit runs of s, in order
RECURSIVE FindDigitRuns(_)
FindDigitRuns(s) ==
    IF s = <<>> THEN <<>>
    ELSE IF IsDigit(Head(s))
         THEN <<SubSeq(s, 1, SpanDigit(s))>> \o FindDigitRuns(Drop(s, SpanDigit(s)))
         ELSE FindDigitRuns(Tail(s))

\* re.match(r'^\d+$', s)
MatchDigits(s) == s # <<>> /\ \A k \in 1..Len(s) : IsDigit(s[k])

----------------------------------------------------------------------------
(* parse_record *)

DropMarker == <<" ", "d", "r", "o", "p">>

\* parse_record that returns the cleaned text in place of the original
parse_record_ReturnsClean(s) ==
    IF s = <<>> \/ Strip(s) = <<>>
    THEN <<0, 0, 0, <<>>>>
    ELSE LET record_str_clean == Strip(Remove(s, DropMarker))
             parts == FindDigitRuns(record_str_clean)
         IN  IF Len(parts) >= 3
             THEN <<ToInt(parts[1]), ToInt(parts[2]), ToInt(parts[3]), record_str_clean>>
             ELSE IF Len(parts) = 2
             THEN <<ToInt(parts[1]), ToInt(parts[2]), 0, record_str_clean>>
             ELSE <<0, 0, 0, record_str_clean>>

parse_record(s) ==
    IF s = <<>> \/ Strip(s) = <<>>
    THEN <<0, 0, 0, <<>>>>
    ELSE LET record_str_clean == Strip(Remove(s, DropMarker))
             parts == FindDigitRuns(record_str_clean)
         IN  IF Len(parts) >= 3
             THEN <<ToInt(parts[1]), ToInt(parts[2]), ToInt(parts[3]), s>>
             ELSE IF Len(parts) = 2
             THEN <<ToInt(parts[1]), ToInt(parts[2]), 0, s>>
             ELSE <<0, 0, 0, s>>

----------------------------------------------------------------------------
(* parse_percentage *)

\* The value '' returned for a blank or unparseable token, and a float.  A
\* float is kept as the decimal m / 10^e with no trailing zero in the
\* fraction, so that equal floats are equal values (5, 5. and 5.0 are one).
EmptyValue == [kind |-> "empty", m |-> 0, e |-> 0]

RECURSIVE Normal(_, _)
Normal(m, e) ==
    IF e > 0 /\ m % 10 = 0 THEN Normal(m \div 10, e - 1)
    ELSE [kind |-> "float", m |-> m, e |-> e]

\* float(s) accepts s: digits with at most one point and at least one digit.
\* (Signs, exponents, underscores, inf and nan need characters that the
\* tokens of this model do not contain.)
FloatSyntax(s) ==
    LET a == SpanDigit(s)
        rest == Drop(s, a)
    IN  \/ a > 0 /\ rest = <<>>
        \/ /\ rest # <<>>
           /\ Head(rest) = "."
           /\ SpanDigit(Tail(rest)) = Len(rest) - 1
           /\ a + Len(rest) - 1 > 0

\* float(s) for s with FloatSyntax(s)
FloatValue(s) ==
    LET a == SpanDigit(s)
        frac == IF a = Len(s) THEN <<>> ELSE Drop(s, a + 1)
    IN  Normal(ToInt(SubSeq(s, 1, a) \o frac), Len(frac))

parse_percentage(s) ==
    IF s = <<>> \/ Strip(s) = <<>>
    THEN EmptyValue
    ELSE LET t == Strip(Remove(s, <<"%">>))
         IN  IF FloatSyntax(t) THEN FloatValue(t) ELSE EmptyValue

----------------------------------------------------------------------------
(* parse_multiline_format: helpers *)

HeaderToken == <<"N", "a", "m", "e">>
TopCutEnd == <<"T", "o", "p", " ", "C", "u", "t", " ", "e", "n", "d">>
Day2End == <<"D", "a", "y", " ", "2", " ", "e", "n", "d">>

\* lines[k] of the source, k 0-based
LineAt(k) == lines[k + 1]

\* not lines[k].strip()
IsBlank(s) == Strip(s) = <<>>

\* 'Top Cut end' in line or 'Day 2 end' in line
IsMarker(s) == Contains(s, TopCutEnd) \/ Contains(s, Day2End)

\* re.match(r'^\d+$', line): the line starts an entry block
MatchPlacement(s) == MatchDigits(s)

\* re.split(r'\t+|\s{2,}', s), scanning left to right: at each position the
\* first alternative that matches is taken (a run of tabs, else a run of two
\* or more whitespace characters); cur is the piece being collected.
RECURSIVE ReSplit(_, _)
ReSplit(s, cur) ==
    IF s = <<>> THEN <<cur>>
    ELSE IF SpanTab(s) >= 1
         THEN <<cur>> \o ReSplit(Drop(s, SpanTab(s)), <<>>)
    ELSE IF SpanSpace(s) >= 2
         THEN <<cur>> \o ReSplit(Drop(s, SpanSpace(s)), <<>>)
    ELSE ReSplit(Tail(s), Append(cur, Head(s)))

\* [p.strip() for p in parts if p.strip()]
RECURSIVE StripNonEmpty(_)
StripNonEmpty(ps) ==
    IF ps = <<>> THEN <<>>
    ELSE IF Strip(Head(ps)) = <<>> THEN StripNonEmpty(Tail(ps))
    ELSE <<Strip(Head(ps))>> \o StripNonEmpty(Tail(ps))

\* stats_parts of a stats line
SplitStats(s) == StripNonEmpty(ReSplit(s, <<>>))

\* the number of stats fields an entry needs
MinStatsParts == 4

\* MakeEntry with the name and the country lines taken for each other
MakeEntry_SwapNameCountry(pl, nm, co, parts, dk) ==
    LET rec == parse_record(parts[2])
    IN  [Placement |-> pl, Name |-> co, Country |-> nm, Points |-> parts[1],
         Wins |-> rec[1], Losses |-> rec[2], Ties |-> rec[3], Record |-> rec[4],
         OPW_Percent |-> parse_percentage(parts[3]),
         OOPW_Percent |-> parse_percentage(parts[4]),
         Deck |-> dk]

\* the entry dict built from the locals of a block
MakeEntry(pl, nm, co, parts, dk) ==
    LET rec == parse_record(parts[2])
    IN  [Placement |-> pl, Name |-> nm, Country |-> co, Points |-> parts[1],
         Wins |-> rec[1], Losses |-> rec[2], Ties |-> rec[3], Record |-> rec[4],
         OPW_Percent |-> parse_percentage(parts[3]),
         OOPW_Percent |-> parse_percentage(parts[4]),
         Deck |-> dk]

----------------------------------------------------------------------------
(* The inputs of the scan: a list of lines is put together from segments,  *)
(* each a single line or a whole entry block, as readlines() returns them  *)
(* (most lines end in a newline).                                          *)

\* the header line
HeaderLine == <<"N", "a", "m", "e", "\t", "D", "e", "c", "k", "\n">>

\* a blank line
SegBlank ==
    << <<"\n">> >>

\* a section marker
SegTopCut ==
    << <<"T", "o", "p", " ", "C", "u", "t", " ", "e", "n", "d", "\n">> >>

\* the other section marker
SegDay2 ==
    << <<"-", "-", " ", "D", "a", "y", " ", "2", " ", "e", "n", "d", " ", "-", "-", "\n">> >>

\* a well-formed block, tab-separated stats
SegBlockA ==
    << <<"1", "\n">>,
       <<"A", "s", "h", " ", "K", "e", "t", "c", "h", "u", "m", "\n">>,
       <<"U", "S", "A", "\n">>,
       <<"4", "5", "\t", "1", "5", " ", "-", " ", "2", " ", "-", " ", "1", "\t", "5", "9", ".", "8", "2", "%", "\t", "6", "1", ".", "1", "0", "%", "\n">>,
       <<"C", "h", "a", "r", "i", "z", "a", "r", "d", " ", "E", "x", "\n">> >>

\* a well-formed block with blank lines inside, stats separated by runs of
\* spaces, a dropped record, an unparseable percentage and a fifth field
SegBlockB ==
    << <<" ", "2", " ", "\n">>,
       <<" ", "\n">>,
       <<"M", "i", "s", "t", "y", "\n">>,
       <<>>,
       <<"U", "K", "\n">>,
       <<"4", "2", " ", " ", "7", " ", "-", " ", "5", " ", "-", " ", "0", " ", "d", "r", "o", "p", " ", " ", " ", "n", "/", "a", " ", "\t", "0", "%", " ", " ", "x", "\n">>,
       <<"\n">>,
       <<"B", "l", "a", "s", "t", "o", "i", "s", "e", " ", "E", "x">> >>

\* a block whose stats line has 3 fields
SegBadBlock ==
    << <<"3", "\n">>,
       <<"B", "r", "o", "c", "k", "\n">>,
       <<"J", "P", "\n">>,
       <<"4", "0", "\t", "9", " ", "-", " ", "4", "\t", "5", "0", "%", "\n">>,
       <<"O", "n", "i", "x", "\n">> >>

\* a block cut after its country line
SegTrunc ==
    << <<"4", "\n">>,
       <<"G", "a", "r", "y", "\n">>,
       <<"\n">>,
       <<"F", "R", "\n">> >>

\* a line of digits
SegDigit ==
    << <<"1", "2", "\n">> >>

\* a line of text
SegText ==
    << <<"O", "a", "k", " ", "L", "a", "b", "\n">> >>

\* a stats line with 4 fields
SegStats ==
    << <<"3", "0", "\t", "6", " ", "-", " ", "3", "\t", "5", "5", ".", "5", "%", "\t", "5", "\n">> >>

SegmentKinds ==
    {SegBlank, SegTopCut, SegDay2, SegBlockA, SegBlockB, SegBadBlock, SegTrunc,
     SegDigit, SegText, SegStats}

\* what precedes the segments: nothing (no header anywhere), the header line,
\* or a block and then the header line
Prefixes == {<<>>, <<HeaderLine>>, SegBlockA \o <<HeaderLine>>}

SeqsUpTo(S, n) == UNION {[1..k -> S] : k \in 0..n}

RECURSIVE Flatten(_)
Flatten(ss) == IF ss = <<>> THEN <<>> ELSE Head(ss) \o Flatten(Tail(ss))

Inputs == {p \o Flatten(ss) : p \in Prefixes, ss \in SeqsUpTo(SegmentKinds, MaxSegs)}

\* the pieces record tokens are assembled from
RecordPieces ==
    { <<"7">>, <<"1", "2">>, <<" ", "-", " ", "5">>, <<"/", "3">>,
      <<" ", "d", "r", "o", "p">>, <<" ">> }

RecordTokens == {Flatten(ps) : ps \in SeqsUpTo(RecordPieces, MaxRecordParts)}

\* the characters percentage tokens are made of
PctAlphabet == {"0", "5", ".", "%", " ", "x"}

PctTokens == SeqsUpTo(PctAlphabet, MaxPctLen)

----------------------------------------------------------------------------
(* parse_multiline_format: one action per step of the scan *)

\* every step of the scan counts as one; the variables of the pure-function
\* calls play no part in it
Tick == steps' = steps + 1 /\ UNCHANGED funVars

\* parse_multiline_format(lines) is entered with any of the inputs:
\* entries = []; i = 0
Enter ==
    /\ pc = "start"
    /\ lines' \in Inputs
    /\ entries' = <<>>
    /\ i' = 0
    /\ pc' = "header"
    /\ UNCHANGED <<placement, name, country, stats_line, deck, stats_parts, consumed,
                   origin>>
    /\ Tick

\* while i < len(lines) and 'Name' not in lines[i]: i += 1
HeaderSeek ==
    /\ pc = "header"
    /\ i < Len(lines)
    /\ ~Contains(LineAt(i), HeaderToken)
    /\ i' = i + 1
    /\ consumed' = consumed \cup {i}
    /\ UNCHANGED <<lines, pc, entries, placement, name, country, stats_line, deck,
                   stats_parts, origin>>
    /\ Tick

\* HeaderSkip that does not wait for the header loop to end
HeaderSkip_NoSeek ==
    /\ pc = "header"
    /\ i' = i + 1
    /\ consumed' = IF i < Len(lines) THEN consumed \cup {i} ELSE consumed
    /\ pc' = "scan"
    /\ UNCHANGED <<lines, entries, placement, name, country, stats_line, deck,
                   stats_parts, origin>>
    /\ Tick

\* the loop ends (header found, or input exhausted); i += 1 skips the header line
HeaderSkip ==
    /\ pc = "header"
    /\ ~(i < Len(lines) /\ ~Contains(LineAt(i), HeaderToken))
    /\ i' = i + 1
    /\ consumed' = IF i < Len(lines) THEN consumed \cup {i} ELSE consumed
    /\ pc' = "scan"
    /\ UNCHANGED <<lines, entries, placement, name, country, stats_line, deck,
                   stats_parts, origin>>
    /\ Tick

\* while i < len(lines) fails: return entries
ScanEnd ==
    /\ pc = "scan"
    /\ ~(i < Len(lines))
    /\ pc' = "done"
    /\ UNCHANGED <<lines, i, entries, placement, name, country, stats_line, deck,
                   stats_parts, consumed, origin>>
    /\ Tick

\* if not line: i += 1; continue
SkipEmpty ==
    /\ pc = "scan"
    /\ i < Len(lines)
    /\ Strip(LineAt(i)) = <<>>
    /\ i' = i + 1
    /\ consumed' = consumed \cup {i}
    /\ UNCHANGED <<lines, pc, entries, placement, name, country, stats_line, deck,
                   stats_parts, origin>>
    /\ Tick

\* SkipMarker that takes the marker for the end of the standings
SkipMarker_Break ==
    /\ pc = "scan"
    /\ i < Len(lines)
    /\ Strip(LineAt(i)) # <<>>
    /\ IsMarker(Strip(LineAt(i)))
    /\ pc' = "done"
    /\ consumed' = consumed \cup {i}
    /\ UNCHANGED <<lines, i, entries, placement, name, country, stats_line, deck,
                   stats_parts, origin>>
    /\ Tick

\* if 'Top Cut end' in line or 'Day 2 end' in line: i += 1; continue
SkipMarker ==
    /\ pc = "scan"
    /\ i < Len(lines)
    /\ Strip(LineAt(i)) # <<>>
    /\ IsMarker(Strip(LineAt(i)))
    /\ i' = i + 1
    /\ consumed' = consumed \cup {i}
    /\ UNCHANGED <<lines, pc, entries, placement, name, country, stats_line, deck,
                   stats_parts, origin>>
    /\ Tick

\* StartEntry that keeps the line as read, without strip()
StartEntry_RawLine ==
    /\ pc = "scan"
    /\ i < Len(lines)
    /\ Strip(LineAt(i)) # <<>>
    /\ ~IsMarker(Strip(LineAt(i)))
    /\ MatchPlacement(Strip(LineAt(i)))
    /\ placement' = LineAt(i)
    /\ i' = i + 1
    /\ consumed' = consumed \cup {i}
    /\ origin' = [origin EXCEPT !.start = i]
    /\ pc' = "name"
    /\ UNCHANGED <<lines, entries, name, country, stats_line, deck, stats_parts>>
    /\ Tick

\* if re.match(r'^\d+$', line): placement = line; i += 1
StartEntry ==
    /\ pc = "scan"
    /\ i < Len(lines)
    /\ Strip(LineAt(i)) # <<>>
    /\ ~IsMarker(Strip(LineAt(i)))
    /\ MatchPlacement(Strip(LineAt(i)))
    /\ placement' = Strip(LineAt(i))
    /\ i' = i + 1
    /\ consumed' = consumed \cup {i}
    /\ origin' = [origin EXCEPT !.start = i]
    /\ pc' = "name"
    /\ UNCHANGED <<lines, entries, name, country, stats_line, deck, stats_parts>>
    /\ Tick

\* SkipOther that goes round the loop without the trailing i += 1
SkipOther_NoAdvance ==
    /\ pc = "scan"
    /\ i < Len(lines)
    /\ Strip(LineAt(i)) # <<>>
    /\ ~IsMarker(Strip(LineAt(i)))
    /\ ~MatchPlacement(Strip(LineAt(i)))
    /\ consumed' = consumed \cup {i}
    /\ UNCHANGED <<lines, i, pc, entries, placement, name, country, stats_line, deck,
                   stats_parts, origin>>
    /\ Tick

\* a line that is not blank, not a marker and not a placement: the trailing i += 1
SkipOther ==
    /\ pc = "scan"
    /\ i < Len(lines)
    /\ Strip(LineAt(i)) # <<>>
    /\ ~IsMarker(Strip(LineAt(i)))
    /\ ~MatchPlacement(Strip(LineAt(i)))
    /\ i' = i + 1
    /\ consumed' = consumed \cup {i}
    /\ UNCHANGED <<lines, pc, entries, placement, name, country, stats_line, deck,
                   stats_parts, origin>>
    /\ Tick

\* while i < len(lines) and not lines[i].strip(): i += 1   (one iteration, in
\* any of the four look-ahead loops of the block)
SkipBlank ==
    /\ pc \in {"name", "country", "stats", "deck"}
    /\ i < Len(lines)
    /\ IsBlank(LineAt(i))
    /\ i' = i + 1
    /\ consumed' = consumed \cup {i}
    /\ UNCHANGED <<lines, pc, entries, placement, name, country, stats_line, deck,
                   stats_parts, origin>>
    /\ Tick

\* BreakScan that appends what it has of the block before it stops
BreakScan_EmitPartial ==
    /\ pc \in {"name", "country", "stats"}
    /\ i >= Len(lines)
    /\ entries' = Append(entries,
                         MakeEntry(placement, name, country, <<<<>>, <<>>, <<>>, <<>>>>, <<>>))
    /\ origin' = [origin EXCEPT !.of = Append(@, origin.start)]
    /\ pc' = "done"
    /\ UNCHANGED <<lines, i, placement, name, country, stats_line, deck,
                   stats_parts, consumed>>
    /\ Tick

\* if i >= len(lines): break   (before the name, the country or the stats line)
BreakScan ==
    /\ pc \in {"name", "country", "stats"}
    /\ i >= Len(lines)
    /\ pc' = "done"
    /\ UNCHANGED <<lines, i, entries, placement, name, country, stats_line, deck,
                   stats_parts, consumed, origin>>
    /\ Tick

\* name = lines[i].strip(); i += 1
TakeName ==
    /\ pc = "name"
    /\ i < Len(lines)
    /\ ~IsBlank(LineAt(i))
    /\ name' = Strip(LineAt(i))
    /\ i' = i + 1
    /\ consumed' = consumed \cup {i}
    /\ pc' = "country"
    /\ UNCHANGED <<lines, entries, placement, country, stats_line, deck, stats_parts,
                   origin>>
    /\ Tick

\* country = lines[i].strip(); i += 1
TakeCountry ==
    /\ pc = "country"
    /\ i < Len(lines)
    /\ ~IsBlank(LineAt(i))
    /\ country' = Strip(LineAt(i))
    /\ i' = i + 1
    /\ consumed' = consumed \cup {i}
    /\ pc' = "stats"
    /\ UNCHANGED <<lines, entries, placement, name, stats_line, deck, stats_parts,
                   origin>>
    /\ Tick

\* stats_line = lines[i].strip(); i += 1
TakeStats ==
    /\ pc = "stats"
    /\ i < Len(lines)
    /\ ~IsBlank(LineAt(i))
    /\ stats_line' = Strip(LineAt(i))
    /\ i' = i + 1
    /\ consumed' = consumed \cup {i}
    /\ pc' = "deck"
    /\ UNCHANGED <<lines, entries, placement, name, country, deck, stats_parts, origin>>
    /\ Tick

\* if i >= len(lines): deck = '' else: deck = lines[i].strip(); then the stats
\* line is split into stats_parts
TakeDeck ==
    /\ pc = "deck"
    /\ ~(i < Len(lines) /\ IsBlank(LineAt(i)))
    /\ deck' = IF i >= Len(lines) THEN <<>> ELSE Strip(LineAt(i))
    /\ consumed' = IF i < Len(lines) THEN consumed \cup {i} ELSE consumed
    /\ stats_parts' = SplitStats(stats_line)
    /\ pc' = "check"
    /\ UNCHANGED <<lines, i, entries, placement, name, country, stats_line, origin>>
    /\ Tick

\* if len(stats_parts) >= 4: entries.append(entry); then the trailing i += 1
EmitEntry ==
    /\ pc = "check"
    /\ Len(stats_parts) >= MinStatsParts
    /\ entries' = Append(entries, MakeEntry(placement, name, country, stats_parts, deck))
    /\ origin' = [origin EXCEPT !.of = Append(@, origin.start)]
    /\ i' = i + 1
    /\ pc' = "scan"
    /\ UNCHANGED <<lines, placement, name, country, stats_line, deck, stats_parts,
                   consumed>>
    /\ Tick

\* DiscardEntry that gives the scan up instead of going on
DiscardEntry_Break ==
    /\ pc = "check"
    /\ Len(stats_parts) < MinStatsParts
    /\ pc' = "done"
    /\ UNCHANGED <<lines, i, entries, placement, name, country, stats_line, deck,
                   stats_parts, consumed, origin>>
    /\ Tick

\* len(stats_parts) < 4: nothing is appended; the trailing i += 1
DiscardEntry ==
    /\ pc = "check"
    /\ Len(stats_parts) < MinStatsParts
    /\ i' = i + 1
    /\ pc' = "scan"
    /\ UNCHANGED <<lines, entries, placement, name, country, stats_line, deck,
                   stats_parts, consumed, origin>>
    /\ Tick

ScanNext ==
    \/ Enter
    \/ HeaderSeek \/ HeaderSkip \/ ScanEnd \/ SkipEmpty \/ SkipMarker
    \/ StartEntry \/ SkipOther \/ SkipBlank \/ BreakScan
    \/ TakeName \/ TakeCountry \/ TakeStats \/ TakeDeck
    \/ EmitEntry \/ DiscardEntry

----------------------------------------------------------------------------
(* Specifications *)

ScanIdle ==
    /\ lines = <<>> /\ i = 0 /\ pc = "idle" /\ entries = <<>>
    /\ placement = <<>> /\ name = <<>> /\ country = <<>>
    /\ stats_line = <<>> /\ deck = <<>> /\ stats_parts = <<>>
    /\ consumed = {} /\ origin = [start |-> -1, of |-> <<>>] /\ steps = 0

FunIdle ==
    /\ record_str = <<>> /\ record_ret = <<0, 0, 0, <<>>>>
    /\ pct_str = <<>> /\ pct_ret = EmptyValue
    /\ fpc = "idle"

\* before the call: nothing is bound yet
Init ==
    /\ lines = <<>>
    /\ i = 0
    /\ pc = "start"
    /\ entries = <<>>
    /\ placement = <<>> /\ name = <<>> /\ country = <<>>
    /\ stats_line = <<>> /\ deck = <<>> /\ stats_parts = <<>>
    /\ consumed = {}
    /\ origin = [start |-> -1, of |-> <<>>]
    /\ steps = 0
    /\ FunIdle

Next == ScanNext

Spec == Init /\ [][Next]_vars

\* parse_record(record_str) is called with any of the record tokens
InitRecord ==
    /\ ScanIdle
    /\ record_str \in RecordTokens
    /\ record_ret = <<0, 0, 0, <<>>>>
    /\ pct_str = <<>> /\ pct_ret = EmptyValue
    /\ fpc = "call"

CallParseRecord ==
    /\ fpc = "call"
    /\ record_ret' = parse_record(record_str)
    /\ fpc' = "ret"
    /\ UNCHANGED <<record_str, pct_str, pct_ret>>
    /\ UNCHANGED <<scanVars, steps>>

SpecRecord == InitRecord /\ [][CallParseRecord]_vars

\* parse_percentage(pct_str) is called with any of the percentage tokens
InitPct ==
    /\ ScanIdle
    /\ pct_str \in PctTokens
    /\ pct_ret = EmptyValue
    /\ record_str = <<>> /\ record_ret = <<0, 0, 0, <<>>>>
    /\ fpc = "call"

CallParsePercentage ==
    /\ fpc = "call"
    /\ pct_ret' = parse_percentage(pct_str)
    /\ fpc' = "ret"
    /\ UNCHANGED <<pct_str, record_str, record_ret>>
    /\ UNCHANGED <<scanVars, steps>>

SpecPct == InitPct /\ [][CallParsePercentage]_vars

----------------------------------------------------------------------------
(* Vocabulary of the properties: the layout of an input, described from    *)
(* the lines themselves and independently of the scan.                     *)

\* a string that is not empty and has digits only
OnlyDigits(s) == s # <<>> /\ \A k \in 1..Len(s) : s[k] \in Digits

NotBlankLine(l) == Strip(l) # <<>>

\* the lines of ls that are not blank, in order
NonBlank(ls) == SelectSeq(ls, NotBlankLine)

\* the first line of the input is the header line
HeaderFirst == lines # <<>> /\ Contains(lines[1], HeaderToken)

\* the non-blank lines after the first line
BodyLines == NonBlank(Tail(lines))

\* the k-th line (1..5) of the j-th group of five lines of nb, trimmed
BlockLine(nb, j, k) == Strip(nb[5 * (j - 1) + k])

\* the j-th group of five starts with a digit-only line
IsBlock(nb, j) == OnlyDigits(BlockLine(nb, j, 1))

\* ... and its stats line splits into at least 4 fields
IsGoodBlock(nb, j) == IsBlock(nb, j) /\ Len(SplitStats(BlockLine(nb, j, 4))) >= 4

\* the entry that the j-th group of five describes
BlockEntry(nb, j) ==
    LET f == SplitStats(BlockLine(nb, j, 4))
    IN  [Placement |-> BlockLine(nb, j, 1),
         Name |-> BlockLine(nb, j, 2),
         Country |-> BlockLine(nb, j, 3),
         Points |-> f[1],
         Wins |-> parse_record(f[2])[1],
         Losses |-> parse_record(f[2])[2],
         Ties |-> parse_record(f[2])[3],
         Record |-> f[2],
         OPW_Percent |-> parse_percentage(f[3]),
         OOPW_Percent |-> parse_percentage(f[4]),
         Deck |-> BlockLine(nb, j, 5)]

\* the entries of the good blocks among the first n groups of five, in order
RECURSIVE GoodEntries(_, _)
GoodEntries(nb, n) ==
    IF n = 0 THEN <<>>
    ELSE IF IsGoodBlock(nb, n)
         THEN Append(GoodEntries(nb, n - 1), BlockEntry(nb, n))
         ELSE GoodEntries(nb, n - 1)

IsPrefix(a, b) == Len(a) <= Len(b) /\ SubSeq(b, 1, Len(a)) = a

\* nb without the marker lines that stand where a block would start
RECURSIVE Unmark(_)
Unmark(nb) ==
    IF nb = <<>> THEN <<>>
    ELSE IF IsMarker(Strip(Head(nb))) THEN Unmark(Tail(nb))
    ELSE IF Len(nb) >= 5 THEN SubSeq(nb, 1, 5) \o Unmark(Drop(nb, 5))
    ELSE nb

----------------------------------------------------------------------------
(* C1 *)

\* the input is a header line followed by well-formed blocks and blank lines
C1_WellFormedInput ==
    /\ HeaderFirst
    /\ Len(BodyLines) % 5 = 0
    /\ \A j \in 1..(Len(BodyLines) \div 5) : IsGoodBlock(BodyLines, j)

\* C1: for a header line followed by k well-formed blocks, with blank lines
\* anywhere between and inside them, the scan returns exactly k entries, in
\* block order, the j-th with the fields of the j-th block.
C1_EntriesFollowBlocks ==
    (pc = "done" /\ C1_WellFormedInput) =>
        /\ Len(entries) = Len(BodyLines) \div 5
        /\ \A j \in 1..Len(entries) : entries[j] = BlockEntry(BodyLines, j)

C1_Witness ==
    /\ pc = "done"
    /\ C1_WellFormedInput
    /\ Len(entries) = 2
    /\ entries[1].Placement = <<"2">>
    /\ entries[2].Placement = <<"1">>
    /\ Len(Tail(lines)) > Len(BodyLines)

----------------------------------------------------------------------------
(* C2 *)

\* the input is a header line followed by five-line blocks, one at least
\* with a stats line of fewer than 4 fields
C2_InputWithBadBlock ==
    /\ HeaderFirst
    /\ Len(BodyLines) % 5 = 0
    /\ \A j \in 1..(Len(BodyLines) \div 5) : IsBlock(BodyLines, j)
    /\ \E j \in 1..(Len(BodyLines) \div 5) : ~IsGoodBlock(BodyLines, j)

\* C2: a block whose stats line has fewer than 4 fields yields no entry and
\* disturbs nothing: at every moment the output is a prefix of the entries of
\* the well-formed blocks, and at the end it is exactly those entries.
C2_BadBlockDropped ==
    C2_InputWithBadBlock =>
        /\ IsPrefix(entries, GoodEntries(BodyLines, Len(BodyLines) \div 5))
        /\ pc = "done" => entries = GoodEntries(BodyLines, Len(BodyLines) \div 5)

C2_Witness ==
    /\ pc = "done"
    /\ C2_InputWithBadBlock
    /\ ~IsGoodBlock(BodyLines, 1)
    /\ Len(BodyLines) = 10
    /\ Len(entries) = 1
    /\ entries[1] = BlockEntry(BodyLines, 2)

----------------------------------------------------------------------------
(* C3 *)

\* the input is a header line followed by well-formed blocks with marker
\* lines between two blocks (never before the first or after the last)
C3_MarkersBetweenBlocks ==
    /\ HeaderFirst
    /\ BodyLines # <<>>
    /\ ~IsMarker(Strip(BodyLines[1]))
    /\ ~IsMarker(Strip(BodyLines[Len(BodyLines)]))
    /\ Len(Unmark(BodyLines)) < Len(BodyLines)
    /\ Len(Unmark(BodyLines)) % 5 = 0
    /\ \A j \in 1..(Len(Unmark(BodyLines)) \div 5) : IsGoodBlock(Unmark(BodyLines), j)

\* C3: marker lines between two blocks neither end the scan nor yield an
\* entry: the result is the entry sequence of the input without those lines.
C3_MarkersIgnored ==
    (pc = "done" /\ C3_MarkersBetweenBlocks) =>
        /\ Len(entries) = Len(Unmark(BodyLines)) \div 5
        /\ \A j \in 1..Len(entries) : entries[j] = BlockEntry(Unmark(BodyLines), j)

C3_Witness ==
    /\ pc = "done"
    /\ C3_MarkersBetweenBlocks
    /\ Contains(BodyLines[6], TopCutEnd)
    /\ Len(entries) = 2

----------------------------------------------------------------------------
(* C4 *)

\* the number of complete five-line groups
C4_Complete == Len(BodyLines) \div 5

\* the input is a header line, five-line blocks, and a last block of which
\* only the placement, or the placement and the name, or the placement, the
\* name and the country are there
C4_TruncatedInput ==
    /\ HeaderFirst
    /\ Len(BodyLines) % 5 \in {1, 2, 3}
    /\ \A j \in 1..C4_Complete : IsBlock(BodyLines, j)
    /\ OnlyDigits(Strip(BodyLines[5 * C4_Complete + 1]))

\* C4: when the input ends before the name, the country or the stats line
\* of a block, the scan stops and returns exactly the entries of the blocks
\* before it, with no entry for the truncated block.
C4_TruncatedBlockDropped ==
    (pc = "done" /\ C4_TruncatedInput) =>
        entries = GoodEntries(BodyLines, C4_Complete)

C4_Witness ==
    /\ pc = "done"
    /\ C4_TruncatedInput
    /\ Len(BodyLines) % 5 = 3
    /\ Len(entries) = 1
    /\ placement # entries[1].Placement

----------------------------------------------------------------------------
(* C5 *)

\* every line evaluated so far is a line of the input
C5_ReadsInRange ==
    /\ consumed \subseteq 0..(Len(lines) - 1)
    /\ Cardinality(consumed) <= Len(lines)

\* an upper bound on the steps the scan can still take: each step moves the
\* cursor forward or moves on within the iteration
C5_Rank ==
    3 * (Len(lines) + 2 - i)
      + (CASE pc = "done" -> 0 [] pc = "check" -> 1 [] OTHER -> 2)

\* C5: the scan of any input terminates (every step lowers a rank that is
\* never negative), its cursor never moves back, it evaluates lines[k] only
\* for indices k of the input, and the lines it consumes are never more than
\* the input has.
C5_ScanTerminates ==
    [][/\ C5_ReadsInRange'
       /\ pc # "start" => /\ i' >= i
                          /\ C5_Rank' < C5_Rank
                          /\ C5_Rank' >= 0]_vars

C5_Witness ==
    /\ pc = "done"
    /\ steps > Len(lines)
    /\ i = Len(lines) + 1
    /\ Cardinality(consumed) = Len(lines)
    /\ Len(lines) > 5
    /\ entries # <<>>

----------------------------------------------------------------------------
(* C6 *)

\* C6: at every moment every entry of the output has a non-empty Placement
\* of digits only, a non-empty Name and a non-empty Country.
C6_EntriesPopulated ==
    \A k \in 1..Len(entries) :
        /\ OnlyDigits(entries[k].Placement)
        /\ entries[k].Name # <<>>
        /\ entries[k].Country # <<>>

\* an entry whose Deck is empty and whose percentage is the empty value
C6_Witness ==
    \E k \in 1..Len(entries) :
        /\ entries[k].Deck = <<>>
        /\ OnlyDigits(entries[k].Placement)
        /\ entries[k].Name # <<>>
        /\ entries[k].Country # <<>>

----------------------------------------------------------------------------
(* C7 *)

\* some line of the input contains "Name"
HasHeader == \E k \in 1..Len(lines) : Contains(lines[k], HeaderToken)

\* the 0-based index of the first line that contains "Name"
FirstHeader ==
    CHOOSE k \in 0..(Len(lines) - 1) :
        /\ Contains(lines[k + 1], HeaderToken)
        /\ \A h \in 0..(k - 1) : ~Contains(lines[h + 1], HeaderToken)

\* C7: every entry starts at a line strictly after the first line that
\* contains "Name"; without such a line the output stays empty.
C7_OnlyAfterHeader ==
    /\ Len(origin.of) = Len(entries)
    /\ ~HasHeader => entries = <<>>
    /\ HasHeader => \A k \in 1..Len(origin.of) : origin.of[k] > FirstHeader

\* a block stands before the header line and only the blocks after it are
\* in the output
C7_Witness ==
    /\ pc = "done"
    /\ HasHeader
    /\ FirstHeader = 5
    /\ OnlyDigits(Strip(lines[1]))
    /\ Len(entries) = 1
    /\ origin.of[1] > 5

----------------------------------------------------------------------------
(* C8 *)

\* s without a " drop" at its end
StripTrailingDrop(s) ==
    LET t == Strip(s)
        n == Len(t) - Len(DropMarker)
    IN  IF n >= 0 /\ SubSeq(t, n + 1, Len(t)) = DropMarker THEN SubSeq(t, 1, n) ELSE t

\* wins, losses and ties as the claim derives them from the digit runs
RunsToRecord(runs) ==
    IF Len(runs) >= 3 THEN <<ToInt(runs[1]), ToInt(runs[2]), ToInt(runs[3])>>
    ELSE IF Len(runs) = 2 THEN <<ToInt(runs[1]), ToInt(runs[2]), 0>>
    ELSE <<0, 0, 0>>

\* C8: parse_record returns the first three maximal digit runs of the token
\* (a trailing "drop" marker aside) as wins, losses and ties; two runs give
\* wins and losses with ties 0; fewer runs, or a blank token, give 0, 0, 0.
C8_RecordFromDigitRuns ==
    fpc = "ret" =>
        SubSeq(record_ret, 1, 3) = RunsToRecord(FindDigitRuns(StripTrailingDrop(record_str)))

----------------------------------------------------------------------------
(* C9 *)

\* C9 as claimed: the fourth element returned by parse_record is the input
\* text exactly as given, for every input.
C9_OriginalAlwaysKept ==
    fpc = "ret" => record_ret[4] = record_str

\* C9, amended: the fourth element is the input text exactly as given when
\* the input has a character that is not whitespace, and the empty string
\* when the input is empty or whitespace only.
C9_OriginalKeptUnlessBlank ==
    fpc = "ret" =>
        record_ret[4] = IF \E k \in 1..Len(record_str) : ~IsSpace(record_str[k])
                        THEN record_str
                        ELSE <<>>

\* a token with a "drop" marker and surrounding whitespace comes back whole
C9_Witness ==
    /\ fpc = "ret"
    /\ Contains(record_str, DropMarker)
    /\ IsSpace(record_str[Len(record_str)])
    /\ record_ret[1] = 7
    /\ record_ret[4] = record_str

----------------------------------------------------------------------------
(* C10 *)

\* s without a percent sign at its end and without surrounding whitespace
StripTrailingPercent(s) ==
    LET t == Strip(s)
    IN  IF t # <<>> /\ t[Len(t)] = "%" THEN Strip(SubSeq(t, 1, Len(t) - 1)) ELSE t

\* the token writes zero: digits 0 only, with at most one point
EncodesZero(t) == FloatSyntax(t) /\ \A k \in 1..Len(t) : t[k] \in {"0", "."}

\* C10: parse_percentage returns the number that remains after a trailing
\* percent sign and the surrounding whitespace are removed, the empty value
\* when nothing or no valid number remains, and zero only for a token that
\* writes zero.
C10_PercentageOfTrailingSign ==
    fpc = "ret" =>
        /\ pct_ret = IF FloatSyntax(StripTrailingPercent(pct_str))
                     THEN FloatValue(StripTrailingPercent(pct_str))
                     ELSE EmptyValue
        /\ pct_ret = Normal(0, 0) => EncodesZero(StripTrailingPercent(pct_str))

----------------------------------------------------------------------------
(* C11 *)

\* the first four lines of nb are a block without a deck line: a digit-only
\* placement, a name, a country and a stats line of at least 4 fields
C11_NoDeckBlock(nb) ==
    /\ Len(nb) >= 4
    /\ OnlyDigits(Strip(nb[1]))
    /\ Len(SplitStats(Strip(nb[4]))) >= 4

\* the entry of that block: its own fields and an empty Deck
C11_NoDeckEntry(nb) ==
    LET f == SplitStats(Strip(nb[4]))
    IN  [Placement |-> Strip(nb[1]),
         Name |-> Strip(nb[2]),
         Country |-> Strip(nb[3]),
         Points |-> f[1],
         Wins |-> parse_record(f[2])[1],
         Losses |-> parse_record(f[2])[2],
         Ties |-> parse_record(f[2])[3],
         Record |-> f[2],
         OPW_Percent |-> parse_percentage(f[3]),
         OOPW_Percent |-> parse_percentage(f[4]),
         Deck |-> <<>>]

\* the input is a header line and a block without a deck line, alone
C11_NoDeckLast ==
    /\ HeaderFirst
    /\ Len(BodyLines) = 4
    /\ C11_NoDeckBlock(BodyLines)

\* the input is a header line, a block without a deck line and then a
\* well-formed five-line block
C11_NoDeckThenBlock ==
    /\ HeaderFirst
    /\ Len(BodyLines) = 9
    /\ C11_NoDeckBlock(BodyLines)
    /\ IsGoodBlock(Drop(BodyLines, 4), 1)

\* C11: a block of 4 lines, without its deck line, is emitted with an empty
\* Deck, as the last block of the input and before another block alike; the
\* block that follows it is emitted too, with its own fields.
C11_NoDeckBlockEmitted ==
    /\ (pc = "done" /\ C11_NoDeckLast) =>
            entries = <<C11_NoDeckEntry(BodyLines)>>
    /\ (pc = "done" /\ C11_NoDeckThenBlock) =>
            entries = <<C11_NoDeckEntry(BodyLines), BlockEntry(Drop(BodyLines, 4), 1)>>

\* the first half of C11 alone: the block without a deck line is the last
C11_LastBlockOnly ==
    (pc = "done" /\ C11_NoDeckLast) => entries = <<C11_NoDeckEntry(BodyLines)>>

====
